---- MODULE Spec2Model ----
(***************************************************************************)
(* A model of cookie_exporter.py: the command-line run (main), the Cookie  *)
(* Reader (get_chrome_cookies over a temporary copy of the SQLite store),  *)
(* the timestamp conversion and the Netscape encoder (to_netscape).        *)
(*                                                                         *)
(* Representation of Python values                                         *)
(*   str      a tuple of one-character strings, <<"a", "b">>               *)
(*   None     PyNone, the one-element tuple <<"None">> (SQL NULL as well)  *)
(*   int      TLC's integers are 32 bits wide and the timestamps are not:  *)
(*            a microsecond count t >= 0 is the limb triple <<a, b, c>>,   *)
(*            t = a*Base^2 + b*Base + c, and a (signed) second count is    *)
(*            the limb pair <<h, l>>, h*Base + l with 0 <= l < Base        *)
(*   float    see TrueDiv                                                  *)
(***************************************************************************)
EXTENDS Integers, Sequences, FiniteSets, TLC

VARIABLES
  proc,      \* per process: the activation of main() / get_chrome_cookies()
  srcfile,   \* per process: the source database file chrome_profile names
  tmp_path,  \* the directory entry of the one temporary path: 0 or a file id
  inodes,    \* the files the temporary path has named, by file id
  outfile,   \* per process: the file at output_path
  conv       \* one call of convert_chrome_timestamp_to_unix on its own

vars == <<proc, srcfile, tmp_path, inodes, outfile, conv>>

PyNone == <<"None">>

(***************************************************************************)
(* Integers of more than 32 bits                                           *)
(***************************************************************************)
Base == 1000000

\* 11644473600, the literal of line 177
EpochDelta == <<11644, 473600>>

Norm(h, l) ==
  IF l < 0 THEN <<h - 1, l + Base>>
  ELSE IF l >= Base THEN <<h + 1, l - Base>>
  ELSE <<h, l>>

IntSub(x, y) == Norm(x[1] - y[1], x[2] - y[2])

IntSucc(x) == Norm(x[1], x[2] + 1)

IntLess(x, y) == x[1] < y[1] \/ (x[1] = y[1] /\ x[2] < y[2])

RECURSIVE Pow2(_)
Pow2(k) == IF k = 0 THEN 1 ELSE 2 * Pow2(k - 1)

(***************************************************************************)
(* chrome_ts / 1000000 is Python's true division of two ints: the IEEE     *)
(* double nearest to the quotient.  A double d >= 0 is written             *)
(*   [int |-> <<h, l>>, num |-> n, exp |-> g],  d = (h*Base + l) + n/2^g,  *)
(* 0 <= n < 2^g.  With q the whole seconds of the quotient, a double in    *)
(* [2^k, 2^(k+1)) has 52 - k fraction bits, so for q >= 2^33 the fraction  *)
(* c/10^6 is rounded to the nearest multiple of 2^-g, g = 52 - k <= 19     *)
(* (no tie is possible: c/10^6 = c0/15625 modulo 2^-6, and 15625 is odd).  *)
(* For q < 2^33 the model is exact only where the quotient is itself a     *)
(* double, which is where the specifications draw their inputs: c a        *)
(* multiple of 15625 (1/64 s).                                             *)
(***************************************************************************)
TwoTo == [k \in 33..44 |->
  CASE k = 33 -> <<8589, 934592>>     [] k = 34 -> <<17179, 869184>>
    [] k = 35 -> <<34359, 738368>>    [] k = 36 -> <<68719, 476736>>
    [] k = 37 -> <<137438, 953472>>   [] k = 38 -> <<274877, 906944>>
    [] k = 39 -> <<549755, 813888>>   [] k = 40 -> <<1099511, 627776>>
    [] k = 41 -> <<2199023, 255552>>  [] k = 42 -> <<4398046, 511104>>
    [] k = 43 -> <<8796093, 22208>>   [] k = 44 -> <<17592186, 44416>>]

FractionBits(q) ==
  IF IntLess(q, TwoTo[33]) THEN 20
  ELSE 52 - (CHOOSE k \in 33..43 : ~IntLess(q, TwoTo[k]) /\ IntLess(q, TwoTo[k + 1]))

TrueDiv(t) ==
  LET q  == <<t[1], t[2]>>
      g  == FractionBits(q)
      c1 == t[3] \div 15625
      c0 == t[3] % 15625
      m  == c0 * Pow2(g - 6)
      n  == c1 * Pow2(g - 6) + (m \div 15625) + (IF 2 * (m % 15625) > 15625 THEN 1 ELSE 0)
  IN  IF n = Pow2(g) THEN [int |-> IntSucc(q), num |-> 0, exp |-> g]
      ELSE [int |-> q, num |-> n, exp |-> g]

\* d - k for an int k: exact for every d the model's inputs produce (the
\* difference is no larger than d and on d's grid or a finer one)
FloatSubInt(d, k) == [int |-> IntSub(d.int, k), num |-> d.num, exp |-> d.exp]

\* int(d): truncation toward zero
IntOfFloat(d) ==
  IF d.int[1] < 0 /\ d.num > 0 THEN IntSucc(d.int) ELSE d.int

Zero3 == <<0, 0, 0>>

\* "if only None is tested": 0 is converted like any other value
convert_none_only(chrome_ts) ==
  IF chrome_ts = PyNone THEN <<0, 0>>
  ELSE IntOfFloat(FloatSubInt(TrueDiv(chrome_ts), EpochDelta))

convert_chrome_timestamp_to_unix(chrome_ts) ==
  IF chrome_ts = PyNone \/ chrome_ts = Zero3 THEN <<0, 0>>
  ELSE IntOfFloat(FloatSubInt(TrueDiv(chrome_ts), EpochDelta))

(***************************************************************************)
(* str(int), as an f-string formats expiry_epoch                           *)
(***************************************************************************)
Digit(d) == <<"0", "1", "2", "3", "4", "5", "6", "7", "8", "9">>[d + 1]

RECURSIVE Dec(_)
Dec(n) == IF n < 10 THEN <<Digit(n)>> ELSE Dec(n \div 10) \o <<Digit(n % 10)>>

RECURSIVE Pad(_, _)
Pad(s, w) == IF Len(s) >= w THEN s ELSE Pad(<<"0">> \o s, w)

DecLimbs(x) == IF x[1] = 0 THEN Dec(x[2]) ELSE Dec(x[1]) \o Pad(Dec(x[2]), 6)

IntToStr(x) ==
  IF x[1] >= 0 THEN DecLimbs(x)
  ELSE <<"-">> \o DecLimbs(IF x[2] = 0 THEN <<-x[1], 0>> ELSE <<-x[1] - 1, Base - x[2]>>)

(***************************************************************************)
(* SQLite's LIKE, as the query of lines 139-143 uses it: no ESCAPE clause, *)
(* so '%' matches any run of characters and '_' any one character, the     *)
(* other characters match themselves without regard to ASCII case, and a   *)
(* NULL operand never matches.                                             *)
(***************************************************************************)
Uppers == <<"A", "B", "C", "D", "E", "F", "G", "H", "I", "J", "K", "L", "M",
            "N", "O", "P", "Q", "R", "S", "T", "U", "V", "W", "X", "Y", "Z">>
Lowers == <<"a", "b", "c", "d", "e", "f", "g", "h", "i", "j", "k", "l", "m",
            "n", "o", "p", "q", "r", "s", "t", "u", "v", "w", "x", "y", "z">>

ToLower(ch) ==
  IF \E i \in 1..26 : Uppers[i] = ch
  THEN Lowers[CHOOSE i \in 1..26 : Uppers[i] = ch]
  ELSE ch

RECURSIVE LikeMatch(_, _)
LikeMatch(pat, s) ==
  IF pat = <<>> THEN s = <<>>
  ELSE IF Head(pat) = "%"
  THEN \E k \in 0..Len(s) : LikeMatch(Tail(pat), SubSeq(s, k + 1, Len(s)))
  ELSE /\ s # <<>>
       /\ Head(pat) = "_" \/ ToLower(Head(pat)) = ToLower(Head(s))
       /\ LikeMatch(Tail(pat), Tail(s))

Like(pattern, value) == value # PyNone /\ LikeMatch(pattern, value)

\* f"%{dom}%"
like_pattern(dom) == <<"%">> \o dom \o <<"%">>

(***************************************************************************)
(* A row of the cookies table, in the order of the SELECT:                 *)
(*   <<host_key, name, value, path, expires_utc, is_secure>>               *)
(***************************************************************************)
\* "the rows are replaced, not extended"
extend_replaces(results, rows) == rows

\* results.extend(cursor.fetchall())
extend(results, rows) == results \o rows

\* SELECT ... FROM cookies WHERE host_key LIKE ?, fetched in storage order
select_like(rows, dom) == SelectSeq(rows, LAMBDA r : Like(like_pattern(dom), r[1]))

\* "the first row is lost"
select_all_skips(rows) == IF rows = <<>> THEN rows ELSE Tail(rows)

\* SELECT ... FROM cookies, fetched in storage order
select_all(rows) == rows

\* the dict of lines 151-158
cookie_dict(r) ==
  [domain |-> r[1], name |-> r[2], value |-> r[3], path |-> r[4],
   secure |-> (r[6] # 0), expires_utc |-> r[5]]

build_cookies(results) == [i \in 1..Len(results) |-> cookie_dict(results[i])]

(***************************************************************************)
(* to_netscape                                                             *)
(***************************************************************************)
Header == <<"#", " ", "N", "e", "t", "s", "c", "a", "p", "e", " ", "H", "T", "T",
            "P", " ", "C", "o", "o", "k", "i", "e", " ", "F", "i", "l", "e">>
Tab == <<"\t">>
Newline == <<"\n">>
StrTRUE == <<"T", "R", "U", "E">>
StrFALSE == <<"F", "A", "L", "S", "E">>

\* domain.startswith('.')
startswith_dot(domain) == Len(domain) > 0 /\ domain[1] = "."

\* "name and value change places"
netscape_line_swapped(c) ==
  c.domain \o Tab \o (IF startswith_dot(c.domain) THEN StrTRUE ELSE StrFALSE)
    \o Tab \o c.path \o Tab \o (IF c.secure THEN StrTRUE ELSE StrFALSE)
    \o Tab \o IntToStr(convert_chrome_timestamp_to_unix(c.expires_utc))
    \o Tab \o c.value \o Tab \o c.name

\* the f-string of line 204
netscape_line(c) ==
  c.domain \o Tab \o (IF startswith_dot(c.domain) THEN StrTRUE ELSE StrFALSE)
    \o Tab \o c.path \o Tab \o (IF c.secure THEN StrTRUE ELSE StrFALSE)
    \o Tab \o IntToStr(convert_chrome_timestamp_to_unix(c.expires_utc))
    \o Tab \o c.name \o Tab \o c.value

RECURSIVE Join(_, _)
\* sep.join(lines)
Join(lines, sep) ==
  IF lines = <<>> THEN <<>>
  ELSE IF Len(lines) = 1 THEN lines[1]
  ELSE lines[1] \o sep \o Join(Tail(lines), sep)

\* "every line is ended by a newline"
to_netscape_trailing(cookies) ==
  Join(<<Header>> \o [i \in 1..Len(cookies) |-> netscape_line(cookies[i])], Newline)
    \o Newline

to_netscape(cookies) ==
  Join(<<Header>> \o [i \in 1..Len(cookies) |-> netscape_line(cookies[i])], Newline)

\* None.startswith raises AttributeError
to_netscape_raises(cookies) == \E i \in 1..Len(cookies) : cookies[i].domain = PyNone

(***************************************************************************)
(* Inputs                                                                  *)
(***************************************************************************)
MaxStore == 2
MaxFilters == 2

Procs == {1, 2}

\* the record of spec section 8: expires 13320288000000000
Row1 == << <<".", "e", "x", "a", "m", "p", "l", "e", ".", "c", "o", "m">>, <<"s", "i", "d">>,
           <<"a", "b", "c", "1", "2", "3">>, <<"/">>, <<13320, 288000, 0>>, 1 >>
\* a session cookie with an empty value
Row2 == << <<"e", "x", "a", "m", "p", "l", "e", ".", "c", "o", "m">>, <<"a">>,
           <<>>, <<"/">>, Zero3, 0 >>
\* expires_utc NULL, is_secure an integer other than 0 and 1
Row3 == << <<"x", ".", "i", "o">>, <<"n">>, <<"v">>, <<"/", "p">>, PyNone, 2 >>
\* host_key NULL, expiring 1.5 s after 1601-01-01
Row4 == << PyNone, <<"k">>, <<"w">>, <<"/">>, <<0, 1, 500000>>, 0 >>

Rows == {Row1, Row2, Row3, Row4}

FilterEntries == {<<".", "c", "o", "m">>, <<"E", "X", "A">>, <<"_", ".", "i">>}

BoundedSeq(S, n) == UNION {[1..k -> S] : k \in 0..n}

File(kind, rows) == [kind |-> kind, rows |-> rows]

\* a source path that names no file; a file that is no database; a
\* database without the cookies table (or without one of the six columns)
BadSources == {File("missing", <<>>), File("notdb", <<>>), File("notable", <<>>)}

Sources == BadSources \cup {File("db", r) : r \in BoundedSeq(Rows, MaxStore)}

FilterLists == BoundedSeq(FilterEntries, MaxFilters)

Absent == [kind |-> "absent", text |-> <<>>]
Text(t) == [kind |-> "text", text |-> t]
OldOutput == Text(<<"o", "l", "d">>)

IdleProc ==
  [pc |-> "idle", use_config |-> FALSE, arg_profile |-> "", arg_domain |-> <<>>,
   arg_output |-> "", chrome_profile |-> "", domain_list |-> <<>>, output_path |-> "",
   tmp_file |-> "", fd |-> 0, conn |-> 0, n |-> 0, results |-> <<>>, cookies |-> <<>>, exc |-> "",
   netscape_txt |-> <<>>, stdout |-> "", stderr |-> "", status |-> -1]

\* a process about to run main(): the parsed arguments, or with --use-config
\* the values of the configuration file ("" and <<>>: not given)
MainProc(uc, profile, domains, output) ==
  [IdleProc EXCEPT !.pc = "main", !.use_config = uc, !.arg_profile = profile,
                   !.arg_domain = domains, !.arg_output = output]

\* a process entering get_chrome_cookies(chrome_profile, filter_domains)
ReaderProc(domains) ==
  [IdleProc EXCEPT !.pc = "copy_open", !.chrome_profile = "Cookies", !.domain_list = domains]

ConvIdle == [pc |-> "idle", chrome_ts |-> Zero3, unix_ts |-> <<0, 0>>, text |-> <<>>]

Init ==
  /\ \E uc \in BOOLEAN, profile \in {"", "Cookies"}, output \in {"", "out.txt"},
        domains \in FilterLists :
       proc = [p \in Procs |-> IF p = 1 THEN MainProc(uc, profile, domains, output)
                               ELSE IdleProc]
  /\ \E s \in Sources : srcfile = [p \in Procs |-> IF p = 1 THEN s ELSE File("missing", <<>>)]
  /\ tmp_path = 0
  /\ inodes = <<>>
  /\ \E o \in {Absent, OldOutput} : outfile = [p \in Procs |-> IF p = 1 THEN o ELSE Absent]
  /\ conv = ConvIdle

(***************************************************************************)
(* main: configuration                                                     *)
(***************************************************************************)
Me(p) == proc[p]
At(p, label) == proc[p].pc = label
Becomes(p, r) == proc' = [proc EXCEPT ![p] = r]

\* sys.exit(1) after a message on stderr
ExitWith(p, message) ==
  Becomes(p, [Me(p) EXCEPT !.pc = "exited", !.stderr = message, !.status = 1])

\* load_config_file, lines 88-90
LoadConfigMissing(p) ==
  /\ At(p, "main") /\ Me(p).use_config
  /\ ExitWith(p, "config file not found")
  /\ UNCHANGED <<srcfile, tmp_path, inodes, outfile, conv>>

\* load_config_file, lines 92-94
LoadConfigNoYaml(p) ==
  /\ At(p, "main") /\ Me(p).use_config
  /\ ExitWith(p, "PyYAML is not installed")
  /\ UNCHANGED <<srcfile, tmp_path, inodes, outfile, conv>>

\* lines 213-217: output_path defaults to "cookies.txt", domains to []
LoadConfig(p) ==
  /\ At(p, "main") /\ Me(p).use_config
  /\ Becomes(p, [Me(p) EXCEPT !.pc = "validate",
                   !.chrome_profile = Me(p).arg_profile,
                   !.domain_list = Me(p).arg_domain,
                   !.output_path = IF Me(p).arg_output = "" THEN "cookies.txt"
                                   ELSE Me(p).arg_output])
  /\ UNCHANGED <<srcfile, tmp_path, inodes, outfile, conv>>

\* lines 218-222
UseCliArgs(p) ==
  /\ At(p, "main") /\ ~Me(p).use_config
  /\ Becomes(p, [Me(p) EXCEPT !.pc = "validate",
                   !.chrome_profile = Me(p).arg_profile,
                   !.domain_list = Me(p).arg_domain,
                   !.output_path = Me(p).arg_output])
  /\ UNCHANGED <<srcfile, tmp_path, inodes, outfile, conv>>

\* lines 224-226
RequireProfile(p) ==
  /\ At(p, "validate") /\ Me(p).chrome_profile = ""
  /\ ExitWith(p, "Chrome profile path is required")
  /\ UNCHANGED <<srcfile, tmp_path, inodes, outfile, conv>>

\* lines 227-229
RequireOutput(p) ==
  /\ At(p, "validate") /\ Me(p).chrome_profile # "" /\ Me(p).output_path = ""
  /\ ExitWith(p, "Output file path is required")
  /\ UNCHANGED <<srcfile, tmp_path, inodes, outfile, conv>>

\* "the output file is opened before the cookies are read"
CallReaderOutputOpened(p) ==
  /\ At(p, "validate") /\ Me(p).chrome_profile # "" /\ Me(p).output_path # ""
  /\ outfile' = [outfile EXCEPT ![p] = Text(<<>>)]
  /\ Becomes(p, [Me(p) EXCEPT !.pc = "copy_open"])
  /\ UNCHANGED <<srcfile, tmp_path, inodes, conv>>

\* line 232: the call of get_chrome_cookies
CallReader(p) ==
  /\ At(p, "validate") /\ Me(p).chrome_profile # "" /\ Me(p).output_path # ""
  /\ Becomes(p, [Me(p) EXCEPT !.pc = "copy_open"])
  /\ UNCHANGED <<srcfile, tmp_path, inodes, outfile, conv>>

(***************************************************************************)
(* get_chrome_cookies.  The temporary path is one fixed name in the        *)
(* temporary directory; a file is reached through the path (tmp_path) or   *)
(* through a descriptor that was opened on it (fd, conn), as on POSIX,     *)
(* where a file that is unlinked stays readable through the descriptors    *)
(* already open.                                                           *)
(***************************************************************************)
Empty == File("empty", <<>>)

Raise(p, exception) == Becomes(p, [Me(p) EXCEPT !.pc = "raised", !.exc = exception])

\* shutil.copy2 opens the source first: a missing source raises before the
\* temporary path is touched
CopyOpenFail(p) ==
  /\ At(p, "copy_open") /\ srcfile[p].kind = "missing"
  /\ Raise(p, "FileNotFoundError")
  /\ UNCHANGED <<srcfile, tmp_path, inodes, outfile, conv>>

\* shutil.copy2 opens the destination for writing: created, or truncated
CopyOpen(p) ==
  /\ At(p, "copy_open") /\ srcfile[p].kind # "missing"
  /\ IF tmp_path = 0
     THEN /\ inodes' = Append(inodes, Empty)
          /\ tmp_path' = Len(inodes) + 1
     ELSE /\ inodes' = [inodes EXCEPT ![tmp_path] = Empty]
          /\ UNCHANGED tmp_path
  /\ Becomes(p, [Me(p) EXCEPT !.pc = "copy_data", !.fd = tmp_path'])
  /\ UNCHANGED <<srcfile, outfile, conv>>

\* shutil.copy2 writes the contents and closes; copy_sqlite_db returns
CopyData(p) ==
  /\ At(p, "copy_data")
  /\ inodes' = [inodes EXCEPT ![Me(p).fd] = srcfile[p]]
  /\ Becomes(p, [Me(p) EXCEPT !.pc = "connect", !.fd = 0, !.tmp_file = "tmp"])
  /\ UNCHANGED <<srcfile, tmp_path, outfile, conv>>

\* "the connection is opened on another name": an empty database is created
ConnectElsewhere(p) ==
  /\ At(p, "connect")
  /\ inodes' = Append(inodes, Empty)
  /\ Becomes(p, [Me(p) EXCEPT !.pc = "query", !.conn = Len(inodes) + 1])
  /\ UNCHANGED <<srcfile, tmp_path, outfile, conv>>

\* sqlite3.connect(tmp_file) opens the file the path names, and creates an
\* empty one when it names none
Connect(p) ==
  /\ At(p, "connect")
  /\ IF tmp_path = 0
     THEN /\ inodes' = Append(inodes, Empty)
          /\ tmp_path' = Len(inodes) + 1
     ELSE UNCHANGED <<inodes, tmp_path>>
  /\ Becomes(p, [Me(p) EXCEPT !.pc = "query", !.conn = tmp_path'])
  /\ UNCHANGED <<srcfile, outfile, conv>>

\* what the connection reads
Database(p) == inodes[Me(p).conn]

\* cursor.execute raises: "file is not a database", "no such table: cookies"
\* or "no such column"; nothing below line 139 runs
QueryFail(p) ==
  /\ At(p, "query") /\ Database(p).kind # "db"
  /\ Raise(p, IF Database(p).kind = "notdb" THEN "DatabaseError" ELSE "OperationalError")
  /\ UNCHANGED <<srcfile, tmp_path, inodes, outfile, conv>>

\* one iteration of the loop of lines 135-144
QueryLike(p) ==
  /\ At(p, "query") /\ Database(p).kind = "db" /\ Me(p).domain_list # <<>>
  /\ Becomes(p, [Me(p) EXCEPT
       !.results = extend(Me(p).results,
                          select_like(Database(p).rows, Me(p).domain_list[Me(p).n + 1])),
       !.n = Me(p).n + 1,
       !.pc = IF Me(p).n + 1 = Len(Me(p).domain_list) THEN "build" ELSE "query"])
  /\ UNCHANGED <<srcfile, tmp_path, inodes, outfile, conv>>

\* lines 146-147
QueryAll(p) ==
  /\ At(p, "query") /\ Database(p).kind = "db" /\ Me(p).domain_list = <<>>
  /\ Becomes(p, [Me(p) EXCEPT !.results = select_all(Database(p).rows), !.pc = "build"])
  /\ UNCHANGED <<srcfile, tmp_path, inodes, outfile, conv>>

\* lines 149-158
BuildCookies(p) ==
  /\ At(p, "build")
  /\ Becomes(p, [Me(p) EXCEPT !.cookies = build_cookies(Me(p).results), !.pc = "close"])
  /\ UNCHANGED <<srcfile, tmp_path, inodes, outfile, conv>>

\* conn.close() and os.path.exists(tmp_file)
CloseAndTest(p) ==
  /\ At(p, "close")
  /\ Becomes(p, [Me(p) EXCEPT !.conn = 0,
                              !.pc = IF tmp_path # 0 THEN "remove" ELSE "returned"])
  /\ UNCHANGED <<srcfile, tmp_path, inodes, outfile, conv>>

\* os.remove(tmp_file), which raises when the path names no file any more
Remove(p) ==
  /\ At(p, "remove")
  /\ IF tmp_path # 0
     THEN /\ tmp_path' = 0
          /\ Becomes(p, [Me(p) EXCEPT !.pc = "returned"])
     ELSE /\ Raise(p, "FileNotFoundError")
          /\ UNCHANGED tmp_path
  /\ UNCHANGED <<srcfile, inodes, outfile, conv>>

Reader(p) ==
  \/ CopyOpenFail(p) \/ CopyOpen(p) \/ CopyData(p) \/ Connect(p)
  \/ QueryFail(p) \/ QueryLike(p) \/ QueryAll(p)
  \/ BuildCookies(p) \/ CloseAndTest(p) \/ Remove(p)

(***************************************************************************)
(* main: encoding and writing                                              *)
(***************************************************************************)
\* an exception nothing catches: the traceback, and exit status 1
Uncaught(p) ==
  /\ At(p, "raised")
  /\ ExitWith(p, "Traceback")
  /\ UNCHANGED <<srcfile, tmp_path, inodes, outfile, conv>>

\* line 234
ToNetscape(p) ==
  /\ At(p, "returned") /\ ~to_netscape_raises(Me(p).cookies)
  /\ Becomes(p, [Me(p) EXCEPT !.netscape_txt = to_netscape(Me(p).cookies),
                              !.pc = "open_out"])
  /\ UNCHANGED <<srcfile, tmp_path, inodes, outfile, conv>>

\* line 196 on a cookie whose host_key was NULL
ToNetscapeRaise(p) ==
  /\ At(p, "returned") /\ to_netscape_raises(Me(p).cookies)
  /\ Raise(p, "AttributeError")
  /\ UNCHANGED <<srcfile, tmp_path, inodes, outfile, conv>>

\* line 238: open(output_path, "w") creates the file or truncates it
OpenOutput(p) ==
  /\ At(p, "open_out")
  /\ outfile' = [outfile EXCEPT ![p] = Text(<<>>)]
  /\ Becomes(p, [Me(p) EXCEPT !.pc = "write"])
  /\ UNCHANGED <<srcfile, tmp_path, inodes, conv>>

\* line 238 raises (a missing directory, no permission): lines 241-243
OpenOutputFail(p) ==
  /\ At(p, "open_out")
  /\ ExitWith(p, "Failed to write cookies")
  /\ UNCHANGED <<srcfile, tmp_path, inodes, outfile, conv>>

\* line 239 and the close that ends the with block
WriteOutput(p) ==
  /\ At(p, "write")
  /\ outfile' = [outfile EXCEPT ![p] = Text(Me(p).netscape_txt)]
  /\ Becomes(p, [Me(p) EXCEPT !.pc = "report"])
  /\ UNCHANGED <<srcfile, tmp_path, inodes, conv>>

\* how much of the text reaches the file when writing fails
PartialLengths(txt) == {0, Len(Header), Len(txt) - 1}

\* "the message of line 240 is printed inside the with block, before the
\* buffered text is flushed"
WriteOutputFailReported(p) ==
  /\ At(p, "write")
  /\ \E k \in PartialLengths(Me(p).netscape_txt) :
       outfile' = [outfile EXCEPT ![p] = Text(SubSeq(Me(p).netscape_txt, 1, k))]
  /\ Becomes(p, [Me(p) EXCEPT !.pc = "exited", !.stderr = "Failed to write cookies",
                              !.stdout = Me(p).output_path, !.status = 1])
  /\ UNCHANGED <<srcfile, tmp_path, inodes, conv>>

\* the write or the close raises (a full disk): lines 241-243
WriteOutputFail(p) ==
  /\ At(p, "write")
  /\ \E k \in PartialLengths(Me(p).netscape_txt) :
       outfile' = [outfile EXCEPT ![p] = Text(SubSeq(Me(p).netscape_txt, 1, k))]
  /\ ExitWith(p, "Failed to write cookies")
  /\ UNCHANGED <<srcfile, tmp_path, inodes, conv>>

\* line 240, and the end of main: exit status 0
PrintSuccess(p) ==
  /\ At(p, "report")
  /\ Becomes(p, [Me(p) EXCEPT !.pc = "exited", !.stdout = Me(p).output_path, !.status = 0])
  /\ UNCHANGED <<srcfile, tmp_path, inodes, outfile, conv>>

Main(p) ==
  \/ LoadConfigMissing(p) \/ LoadConfigNoYaml(p) \/ LoadConfig(p) \/ UseCliArgs(p)
  \/ RequireProfile(p) \/ RequireOutput(p) \/ CallReader(p)
  \/ Uncaught(p) \/ ToNetscape(p) \/ ToNetscapeRaise(p)
  \/ OpenOutput(p) \/ OpenOutputFail(p) \/ WriteOutput(p) \/ WriteOutputFail(p)
  \/ PrintSuccess(p)

\* one run of the program
Next == \E p \in {1} : Main(p) \/ Reader(p)

Spec == Init /\ [][Next]_vars

(***************************************************************************)
(* Two instances inside get_chrome_cookies at once, each with a source of  *)
(* its own and the one temporary path between them.                        *)
(***************************************************************************)
TwoSources == {File("missing", <<>>), File("db", <<Row1>>), File("db", <<Row2, Row3>>)}
TwoFilters == {<<>>, << <<".", "c", "o", "m">>, <<"_", ".", "i">> >>}

InitTwo ==
  /\ proc \in [Procs -> {ReaderProc(d) : d \in TwoFilters}]
  /\ srcfile \in [Procs -> TwoSources]
  /\ tmp_path = 0
  /\ inodes = <<>>
  /\ outfile = [p \in Procs |-> Absent]
  /\ conv = ConvIdle

NextTwo == \E p \in Procs : Reader(p)

SpecTwo == InitTwo /\ [][NextTwo]_vars

(***************************************************************************)
(* convert_chrome_timestamp_to_unix on its own, and the formatting of its  *)
(* result in the f-string of line 204.                                     *)
(***************************************************************************)
\* whole seconds below 2^33 (with sixty-fourths of a second) and from 2^33
\* on (with any microsecond)
SmallSeconds == {<<0, 0>>, <<0, 1>>, <<0, 86400>>, <<3050, 0>>, <<8589, 934591>>}
LargeSeconds ==
  {<<8589, 934592>>, <<11644, 473599>>, <<11644, 473600>>, <<11644, 473601>>,
   <<13320, 288000>>, <<17179, 869183>>, <<17179, 869184>>, <<20000, 0>>,
   <<34359, 738368>>, <<9223372, 36854>>}
ExactMicros == {0, 15625, 500000, 984375}
AnyMicros == {0, 1, 499999, 500000, 500001, 999998, 999999}

ConvInputs ==
  {PyNone} \cup {<<q[1], q[2], c>> : q \in SmallSeconds, c \in ExactMicros}
           \cup {<<q[1], q[2], c>> : q \in LargeSeconds, c \in AnyMicros}

InitConv ==
  /\ proc = [p \in Procs |-> IdleProc]
  /\ srcfile = [p \in Procs |-> File("missing", <<>>)]
  /\ tmp_path = 0
  /\ inodes = <<>>
  /\ outfile = [p \in Procs |-> Absent]
  /\ \E t \in ConvInputs : conv = [ConvIdle EXCEPT !.pc = "call", !.chrome_ts = t]

\* line 200
ConvCall ==
  /\ conv.pc = "call"
  /\ conv' = [conv EXCEPT !.pc = "format",
                          !.unix_ts = convert_chrome_timestamp_to_unix(conv.chrome_ts)]
  /\ UNCHANGED <<proc, srcfile, tmp_path, inodes, outfile>>

\* {expiry_epoch} in line 204
ConvFormat ==
  /\ conv.pc = "format"
  /\ conv' = [conv EXCEPT !.pc = "done", !.text = IntToStr(conv.unix_ts)]
  /\ UNCHANGED <<proc, srcfile, tmp_path, inodes, outfile>>

NextConv == ConvCall \/ ConvFormat

SpecConv == InitConv /\ [][NextConv]_vars

(***************************************************************************)
(* Properties                                                              *)
(***************************************************************************)
\* s contains sub as a substring, character for character
Contains(s, sub) ==
  /\ s # PyNone
  /\ \E k \in 0..(Len(s) - Len(sub)) : SubSeq(s, k + 1, k + Len(sub)) = sub

\* host_key LIKE '%entry%'
ContainsLike(s, entry) == Like(<<"%">> \o entry \o <<"%">>, s)

RECURSIVE ConcatSubstring(_, _)
ConcatSubstring(rows, F) ==
  IF F = <<>> THEN <<>>
  ELSE SelectSeq(rows, LAMBDA r : Contains(r[1], Head(F))) \o ConcatSubstring(rows, Tail(F))

RECURSIVE ConcatLike(_, _)
ConcatLike(rows, F) ==
  IF F = <<>> THEN <<>>
  ELSE SelectSeq(rows, LAMBDA r : ContainsLike(r[1], Head(F))) \o ConcatLike(rows, Tail(F))

\* the cookies are the rows, field for field and in order
SameRecords(cookies, rows) ==
  /\ Len(cookies) = Len(rows)
  /\ \A i \in 1..Len(rows) :
       /\ cookies[i].domain = rows[i][1]
       /\ cookies[i].name = rows[i][2]
       /\ cookies[i].value = rows[i][3]
       /\ cookies[i].path = rows[i][4]
       /\ cookies[i].expires_utc = rows[i][5]
       /\ cookies[i].secure = (rows[i][6] # 0)

\* how often row r is in the result
Occurrences(cookies, r) ==
  Cardinality({i \in 1..Len(cookies) : SameRecords(<<cookies[i]>>, <<r>>)})

RECURSIVE SplitOn(_, _)
\* s.split(ch)
SplitOn(s, ch) ==
  IF \A i \in 1..Len(s) : s[i] # ch THEN <<s>>
  ELSE LET k == CHOOSE i \in 1..Len(s) : s[i] = ch /\ \A j \in 1..(i - 1) : s[j] # ch
       IN  <<SubSeq(s, 1, k - 1)>> \o SplitOn(SubSeq(s, k + 1, Len(s)), ch)

\* the fields of the i-th record line of a payload
Fields(txt, i) == SplitOn(SplitOn(txt, "\n")[i + 1], "\t")

RECURSIVE Offset(_, _)
\* where the newline before the i-th record line is written
Offset(cookies, i) ==
  IF i = 1 THEN Len(Header)
  ELSE Offset(cookies, i - 1) + 1 + Len(netscape_line(cookies[i - 1]))

ReaderErrors == {"FileNotFoundError", "DatabaseError", "OperationalError"}

\* C1: once get_chrome_cookies has returned or raised, the temporary file no
\* longer exists.
C1_TempFileDeletedOnEveryExit ==
  \A p \in Procs : (At(p, "returned") \/ At(p, "raised")) => tmp_path = 0

\* C2: for every t > 0 the conversion is floor(t / 1000000) - 11644473600.
C2_ConvertIsFloorMinusDelta ==
  (conv.pc = "done" /\ conv.chrome_ts # PyNone /\ conv.chrome_ts # Zero3)
    => conv.unix_ts = IntSub(<<conv.chrome_ts[1], conv.chrome_ts[2]>>, EpochDelta)

\* C3, as stated: with a non-empty filter list the result is, entry by entry
\* and in storage order, the records whose host contains the entry as a
\* substring.
C3_ResultIsSubstringMatches ==
  \A p \in Procs :
    (At(p, "returned") /\ Me(p).domain_list # <<>>)
      => SameRecords(Me(p).cookies, ConcatSubstring(srcfile[p].rows, Me(p).domain_list))

\* C3, amended: with a non-empty filter list the result is, entry by entry
\* and in storage order, the records whose host matches LIKE '%entry%' (a
\* substring match that ignores ASCII case and in which '_' and '%' of the
\* entry are wildcards; a NULL host never matches); a record is in the
\* result once for every entry it matches, times its number in the store.
C3_ResultIsLikeMatches ==
  \A p \in Procs :
    (At(p, "returned") /\ Me(p).domain_list # <<>>)
      => LET rows == srcfile[p].rows
             F    == Me(p).domain_list
         IN  /\ SameRecords(Me(p).cookies, ConcatLike(rows, F))
             /\ \A r \in Rows :
                  Occurrences(Me(p).cookies, r) =
                    Cardinality({x \in (1..Len(F)) \X (1..Len(rows)) :
                                   rows[x[2]] = r /\ ContainsLike(r[1], F[x[1]])})

C3_Witness ==
  /\ At(1, "returned")
  /\ Len(Me(1).domain_list) = 2
  /\ srcfile[1].rows = <<Row3, Row1>>
  /\ Occurrences(Me(1).cookies, Row1) = 2
  /\ Occurrences(Me(1).cookies, Row3) = 0
  /\ ~Contains(Row1[1], Me(1).domain_list[1])

\* C4: with an empty filter list the result is every record of the store,
\* once each, in storage order.
C4_UnfilteredIsWholeStore ==
  \A p \in Procs :
    (At(p, "returned") /\ Me(p).domain_list = <<>>)
      => SameRecords(Me(p).cookies, srcfile[p].rows)

C4_Witness ==
  /\ At(1, "returned")
  /\ Me(1).domain_list = <<>>
  /\ srcfile[1].rows = <<Row4, Row1>>
  /\ Len(Me(1).cookies) = 2

\* C5: the payload is the header followed, for the i-th record in turn, by a
\* newline and the i-th record's line, and nothing else; for no record it is
\* the header alone.
C5_PayloadIsHeaderThenLinesInOrder ==
  \A p \in Procs :
    At(p, "open_out")
      => LET c   == Me(p).cookies
             txt == Me(p).netscape_txt
         IN  /\ SubSeq(txt, 1, Len(Header)) = Header
             /\ Len(txt) = Offset(c, Len(c) + 1)
             /\ \A i \in 1..Len(c) :
                  SubSeq(txt, Offset(c, i) + 1, Offset(c, i + 1)) =
                    <<"\n">> \o netscape_line(c[i])
             /\ (c = <<>> => txt = Header)

C5_Witness ==
  /\ At(1, "open_out")
  /\ Len(Me(1).cookies) = 2
  /\ Me(1).cookies[1] = Me(1).cookies[2]
  /\ Len(SplitOn(Me(1).netscape_txt, "\n")) = 3

\* the line of spec section 8
ExampleLine ==
  <<".", "e", "x", "a", "m", "p", "l", "e", ".", "c", "o", "m", "\t", "T", "R", "U", "E",
    "\t", "/", "\t", "T", "R", "U", "E", "\t", "1", "6", "7", "5", "8", "1", "4", "4", "0",
    "0", "\t", "s", "i", "d", "\t", "a", "b", "c", "1", "2", "3">>

\* C6: a record's line is its seven fields domain, subdomain flag, path,
\* secure flag, converted expiry, name, value, separated by single tabs;
\* the subdomain flag is TRUE exactly for a domain that begins with '.',
\* the secure flag TRUE exactly for a secure cookie; the record of the
\* specification's example gives the example's line.
C6_LineIsSevenTabSeparatedFields ==
  \A p \in Procs :
    At(p, "open_out")
      => \A i \in 1..Len(Me(p).cookies) :
           LET c == Me(p).cookies[i]
               f == Fields(Me(p).netscape_txt, i)
           IN  /\ Len(f) = 7
               /\ f[1] = c.domain
               /\ f[2] = (IF c.domain # <<>> /\ Head(c.domain) = "." THEN StrTRUE ELSE StrFALSE)
               /\ f[3] = c.path
               /\ f[4] = (IF c.secure THEN StrTRUE ELSE StrFALSE)
               /\ f[5] = IntToStr(convert_chrome_timestamp_to_unix(c.expires_utc))
               /\ f[6] = c.name
               /\ f[7] = c.value
               /\ (SameRecords(<<c>>, <<Row1>>)
                     => SplitOn(Me(p).netscape_txt, "\n")[i + 1] = ExampleLine)

C6_Witness ==
  /\ At(1, "open_out")
  /\ SameRecords(Me(1).cookies, <<Row1, Row2>>)
  /\ Fields(Me(1).netscape_txt, 1)[2] = StrTRUE
  /\ Fields(Me(1).netscape_txt, 2)[2] = StrFALSE

\* C7: a record whose expiry is 0 or None converts to 0, and the expiry
\* field of its line is "0".
C7_SessionCookieExpiryIsZero ==
  \A p \in Procs :
    At(p, "open_out")
      => \A i \in 1..Len(Me(p).cookies) :
           Me(p).cookies[i].expires_utc \in {Zero3, PyNone}
             => /\ convert_chrome_timestamp_to_unix(Me(p).cookies[i].expires_utc) = <<0, 0>>
                /\ Fields(Me(p).netscape_txt, i)[5] = <<"0">>

C7_Witness ==
  /\ At(1, "open_out")
  /\ Len(Me(1).cookies) = 2
  /\ Me(1).cookies[1].expires_utc = Zero3
  /\ Me(1).cookies[2].expires_utc = PyNone

\* C8: when the Reader fails the run ends with an error and the output file
\* is as it was; the output file is written only once get_chrome_cookies and
\* to_netscape have both returned.
C8_ReaderFailureLeavesOutputAlone ==
  \A p \in Procs :
    /\ Me(p).exc \in ReaderErrors
         => /\ outfile[p] \in {Absent, OldOutput}
            /\ Me(p).stdout = ""
            /\ At(p, "exited") => Me(p).status = 1
    /\ outfile[p] \notin {Absent, OldOutput}
         => /\ Me(p).exc = ""
            /\ Me(p).pc \in {"write", "report", "exited"}
            /\ Me(p).netscape_txt = to_netscape(Me(p).cookies)

C8_Witness ==
  /\ At(1, "exited")
  /\ Me(1).exc = "OperationalError"
  /\ outfile[1] = OldOutput
  /\ Me(1).status = 1

\* everything the store holds for the filters, read in full
FullyRead(p) ==
  /\ srcfile[p].kind = "db"
  /\ SameRecords(Me(p).cookies,
                 IF Me(p).domain_list = <<>> THEN srcfile[p].rows
                 ELSE ConcatLike(srcfile[p].rows, Me(p).domain_list))

\* C9: a run ends either with every record read, the whole payload written
\* and success reported with the output path, or with a non-zero status and
\* no report of success; success is never reported after a failed write.
C9_SuccessOrFailureNothingBetween ==
  \A p \in Procs :
    /\ At(p, "exited")
         => \/ /\ Me(p).status = 0
               /\ Me(p).stdout = Me(p).output_path /\ Me(p).output_path # ""
               /\ Me(p).stderr = ""
               /\ FullyRead(p)
               /\ outfile[p] = Text(Me(p).netscape_txt)
               /\ Len(SplitOn(outfile[p].text, "\n")) = 1 + Len(Me(p).cookies)
               /\ SplitOn(outfile[p].text, "\n")[1] = Header
            \/ /\ Me(p).status = 1
               /\ Me(p).stdout = ""
               /\ Me(p).stderr # ""
    /\ Me(p).stdout # "" => (At(p, "exited") /\ Me(p).status = 0)
    /\ (Me(p).stderr # "" \/ Me(p).exc # "") => Me(p).stdout = ""

C9_Witness ==
  /\ At(1, "exited")
  /\ Me(1).stderr = "Failed to write cookies"
  /\ Me(1).status = 1
  /\ outfile[1].kind = "text"
  /\ Len(outfile[1].text) > Len(Header)
  /\ outfile[1].text # Me(1).netscape_txt

\* what an instance running alone ends with
SoloOutcome(p) ==
  CASE At(p, "returned") -> FullyRead(p) /\ tmp_path = 0
    [] At(p, "raised") ->
         \/ srcfile[p].kind = "missing" /\ Me(p).exc = "FileNotFoundError" /\ Me(p).tmp_file = ""
         \/ srcfile[p].kind = "notdb" /\ Me(p).exc = "DatabaseError"
         \/ srcfile[p].kind = "notable" /\ Me(p).exc = "OperationalError"
    [] OTHER -> TRUE

\* the instance has opened the temporary path for writing
HasWritten(q) == Me(q).fd # 0 \/ Me(q).tmp_file # ""

\* C10: two instances share the one temporary path, and an instance ends
\* otherwise than it would alone (with records that are not those of its own
\* store, or with an error its own store does not cause) only after the
\* other instance has written to that path; and there is a run in which one
\* instance returns the other's records and the other queries a file the
\* first has deleted.
C10_OnlyTheOtherInstanceDisturbs ==
  \A p \in Procs : \A q \in Procs \ {p} :
    ~SoloOutcome(p) => HasWritten(q)

C10_Witness ==
  /\ At(1, "returned") /\ At(2, "raised")
  /\ srcfile[1].kind = "db" /\ srcfile[2].kind = "db"
  /\ ~FullyRead(1)
  /\ SameRecords(Me(1).cookies, srcfile[2].rows)
  /\ Me(2).exc = "OperationalError"

====
